---- MODULE Spec2Model ----
(***************************************************************************)
(* Model of websdr/mipmap_reader.H: mipmapChunkFinder (the depth-first     *)
(* chunk tree indexer), mipmapReaderView and mipmapReader (requestView,    *)
(* read, readSpectrum).  Arrays keep the source's 0-based indices: an      *)
(* int[LEVELS] is a function on 0 .. LEVELS-1.                             *)
(***************************************************************************)
EXTENDS Integers, Sequences, FiniteSets, TLC

VARIABLES
    finder,     \* the mipmapChunkFinder<LEVELS> object (reader.finder in the reader)
    logical,    \* history: logical chunk index the cursor stands on, (n + k) mod N_L
    valid,      \* history: the last goToChunk was given an index inside [0, N_L)
    lastOp,     \* history: the operation that produced this state
    reader,     \* the mipmapReader<LEVELS, CHANNELS> fields other than finder and mipmap
    requested,  \* requestView's argument
    returned,   \* requestView's out-parameter
    chosen,     \* requestView's i at the label ret (-1: the original data)
    outcome,    \* "none", or how requestView ended: "returned" / "assert_failed"
    readResult, \* "none", or how read / readSpectrum ended: "ok" / "logic_error"
    slots       \* the currIndex of every chunk the last read / readSpectrum copied

finderVars == <<finder, logical, valid>>
readerVars == <<reader, requested, returned, chosen, outcome, readResult, slots>>
vars == <<finder, logical, valid, lastOp, reader, requested, returned, chosen, outcome,
          readResult, slots>>

\* ------------------------------------------------------------------ bounds
MaxLevels == 3      \* LEVELS ranges over 1 .. MaxLevels
MaxStep == 2        \* every levelSteps[i] ranges over 1 .. MaxStep
MaxExcess == 2      \* goToChunk is also called with index in N_L .. N_L + MaxExcess - 1
MaxReaderLevels == 2 \* a reader's LEVELS ranges over 1 .. MaxReaderLevels
MaxChunkSize == 2   \* chunkSize ranges over 1 .. MaxChunkSize
MaxBaseStep == 2    \* baseLevelStep ranges over 1 .. MaxBaseStep
MaxLength == 6      \* length ranges over 1 .. MaxLength

\* ------------------------------------------------------------------ program constants
CHANNELS == 2           \* readSpectrum's static_assert(CHANNELS == 2)
DefaultChunkSize == 16  \* int chunkSize = 16
DefaultBaseStep == 4    \* int baseLevelStep = 4

\* ------------------------------------------------------------------ helpers
RECURSIVE SumOver(_, _, _)
\* sum of F[i] for i in lo .. hi
SumOver(F, lo, hi) == IF lo > hi THEN 0 ELSE F[lo] + SumOver(F, lo + 1, hi)

RECURSIVE ProdOver(_, _, _)
\* product of F[i] for i in lo .. hi (1 when empty)
ProdOver(F, lo, hi) == IF lo > hi THEN 1 ELSE F[lo] * ProdOver(F, lo + 1, hi)

\* ------------------------------------------------------------------ mipmapChunkFinder
\* Field initialisers of the struct: all arrays {} and all ints 0.
NewFinder(LEVELS) ==
    [ LEVELS          |-> LEVELS,
      levelSteps      |-> [i \in 0 .. LEVELS - 1 |-> 0],
      levelSizes      |-> [i \in 0 .. LEVELS - 1 |-> 0],
      levelIndex      |-> [i \in 0 .. LEVELS - 1 |-> 0],
      totalChunkCount |-> 0,
      currLevel       |-> 0,
      currIndex       |-> 0 ]

RECURSIVE levelSizesLoop(_, _)
\* value of levelSizes[i] after init()'s loop
levelSizesLoop(levelSteps, i) ==
    IF i = 0 THEN 1 ELSE levelSizesLoop(levelSteps, i - 1) * levelSteps[i - 1] + 1

\* void init()
init(f) ==
    LET sizes == [i \in 0 .. f.LEVELS - 1 |-> levelSizesLoop(f.levelSteps, i)]
    IN  [f EXCEPT !.levelSizes = sizes,
                  !.totalChunkCount = sizes[f.LEVELS - 1] * f.levelSteps[f.LEVELS - 1]]

\* goToChunk without the skip over the node's own children (the if(level > 0) line)
goToChunk_NoSkip(f, level, index) ==
    LET digit(i) == (index \div ProdOver(f.levelSteps, level, i - 1)) % f.levelSteps[i]
        idx == [i \in 0 .. f.LEVELS - 1 |-> IF i >= level THEN digit(i) ELSE f.levelIndex[i]]
    IN  [f EXCEPT !.currLevel = level, !.levelIndex = idx,
                  !.currIndex = SumOver([i \in 0 .. f.LEVELS - 1 |->
                                            idx[i] * f.levelSizes[i]], level, f.LEVELS - 1)]

RECURSIVE tmpIndexAt(_, _, _, _)
\* value of tmpIndex on entry to iteration i of goToChunk's first loop
tmpIndexAt(f, level, index, i) ==
    IF i = level THEN index
    ELSE tmpIndexAt(f, level, index, i - 1) \div f.levelSteps[i - 1]

\* void goToChunk(int level, int index), index >= 0
goToChunk(f, level, index) ==
    LET idx == [i \in 0 .. f.LEVELS - 1 |->
                   IF i >= level
                   THEN tmpIndexAt(f, level, index, i) % f.levelSteps[i]
                   ELSE f.levelIndex[i]]
        before == SumOver([i \in 0 .. f.LEVELS - 1 |-> idx[i] * f.levelSizes[i]],
                          level, f.LEVELS - 1)
        skip == IF level > 0 THEN f.levelSteps[level - 1] * f.levelSizes[level - 1] ELSE 0
    IN  [f EXCEPT !.currLevel = level, !.levelIndex = idx, !.currIndex = before + skip]

RECURSIVE carryLoop_NoParentSlot(_, _)
\* the carry loop without the currIndex++ that steps over a finished parent node
carryLoop_NoParentSlot(f, i) ==
    IF i >= f.LEVELS THEN f
    ELSE IF f.levelIndex[i] # f.levelSteps[i] - 1
         THEN [f EXCEPT !.levelIndex[i] = @ + 1]
         ELSE carryLoop_NoParentSlot([f EXCEPT !.levelIndex[i] = 0], i + 1)

RECURSIVE carryLoop(_, _)
\* the for(i = level+1; i < LEVELS; i++) loop of advanceChunk, from iteration i on
carryLoop(f, i) ==
    IF i >= f.LEVELS THEN f
    ELSE LET g == [f EXCEPT !.currIndex = @ + 1]
         IN  IF g.levelIndex[i] # g.levelSteps[i] - 1
             THEN [g EXCEPT !.levelIndex[i] = @ + 1]
             ELSE carryLoop([g EXCEPT !.levelIndex[i] = 0], i + 1)

\* no wraparound at the end of the ring
wrapIndex_NoWrap(f) == f

\* if(currIndex >= totalChunkCount) currIndex -= totalChunkCount;
wrapIndex(f) ==
    IF f.currIndex >= f.totalChunkCount
    THEN [f EXCEPT !.currIndex = @ - f.totalChunkCount]
    ELSE f

\* advanceChunk that carries but leaves levelIndex[level] on its last value
advanceChunk_NoReset(f) ==
    LET level == f.currLevel
        g == [f EXCEPT !.currIndex = @ + f.levelSizes[level]]
    IN  IF g.levelIndex[level] = g.levelSteps[level] - 1
        THEN wrapIndex(carryLoop(g, level + 1))
        ELSE wrapIndex([g EXCEPT !.levelIndex[level] = @ + 1])

\* void advanceChunk()
advanceChunk(f) ==
    LET level == f.currLevel
        g == [f EXCEPT !.currIndex = @ + f.levelSizes[level]]
        h == IF g.levelIndex[level] = g.levelSteps[level] - 1
             THEN [carryLoop(g, level + 1) EXCEPT !.levelIndex[level] = 0]
             ELSE [g EXCEPT !.levelIndex[level] = @ + 1]
    IN  wrapIndex(h)

\* Number of nodes of the chunk tree at a level: product of levelSteps[level .. LEVELS-1].
NodeCount(f, level) == ProdOver(f.levelSteps, level, f.LEVELS - 1)


\* ------------------------------------------------------------------ mipmapReaderView
NoView == [startSamples |-> 0, endSamples |-> 0, resolution |-> 0]

\* int compression(), and the same expression in read and readSpectrum
compression(view) == (view.endSamples - view.startSamples) \div view.resolution

\* ------------------------------------------------------------------ mipmapReader
RECURSIVE levelCompressionLoop(_, _, _)
\* value of levelCompression[i] after mipmapReader::init's loop
levelCompressionLoop(baseLevelStep, levelSteps, i) ==
    IF i = 0 THEN baseLevelStep
    ELSE levelCompressionLoop(baseLevelStep, levelSteps, i - 1) * levelSteps[i - 1]

\* void init(int* levelSteps): the reader's own fields (finder.init() is FinderOf)
readerInit(levelSteps, length, chunkSize, baseLevelStep, allowOriginal) ==
    [ LEVELS           |-> Cardinality(DOMAIN levelSteps),
      levelCompression |-> [i \in DOMAIN levelSteps |->
                               levelCompressionLoop(baseLevelStep, levelSteps, i)],
      length           |-> length,
      chunkSize        |-> chunkSize,
      baseLevelStep    |-> baseLevelStep,
      allowOriginal    |-> allowOriginal ]

\* the level test with < in place of <=
levelQualifies_Strict(r, i, reqViewSpan, resolution) ==
    r.levelCompression[i] * resolution < reqViewSpan

\* levelCompression[i] <= compression, with compression = double(reqViewSpan) /
\* requested.resolution and resolution > 0: int operands below 2^31 make the double
\* comparison agree with the exact one, c * resolution <= span
levelQualifies(r, i, reqViewSpan, resolution) ==
    r.levelCompression[i] * resolution <= reqViewSpan

RECURSIVE findLevel(_, _, _, _)
\* for(; i >= 0; i--) if(levelCompression[i] <= compression) break;  -> i
findLevel(r, i, reqViewSpan, resolution) ==
    IF i < 0 THEN -1
    ELSE IF levelQualifies(r, i, reqViewSpan, resolution) THEN i
    ELSE findLevel(r, i - 1, reqViewSpan, resolution)

\* the rounding block with the requested resolution left in place
snapToLevel_KeepResolution(r, req, i) ==
    LET roundTo == r.levelCompression[i] * r.chunkSize
    IN  [startSamples |-> (req.startSamples \div roundTo) * roundTo,
         endSamples |-> ((req.endSamples + roundTo - 1) \div roundTo) * roundTo,
         resolution |-> req.resolution]

\* the rounding block with endSamples always moved to the next chunk boundary
snapToLevel_AlwaysRoundUp(r, req, i) ==
    LET c == r.levelCompression[i]
        roundTo == c * r.chunkSize
        s == (req.startSamples \div roundTo) * roundTo
        e == (req.endSamples \div roundTo + 1) * roundTo
    IN  [startSamples |-> s, endSamples |-> e, resolution |-> (e - s) \div c]

\* the block that rounds the view to whole chunks of level i
snapToLevel(r, req, i) ==
    LET c == r.levelCompression[i]
        roundTo == c * r.chunkSize
        s == (req.startSamples \div roundTo) * roundTo
        e == ((req.endSamples + roundTo - 1) \div roundTo) * roundTo
    IN  [startSamples |-> s, endSamples |-> e, resolution |-> (e - s) \div c]

\* assert(returned.endSamples <= length) at the label ret
retAssert(r, ret) == ret.endSamples <= r.length

\* requestView falling back to the coarsest level, i = LEVELS-1, when no level
\* qualifies and allowOriginal is false
requestView_FallbackCoarsest(r, req) ==
    LET reqViewSpan == req.endSamples - req.startSamples
        found == findLevel(r, r.LEVELS - 1, reqViewSpan, req.resolution)
        i == IF found < 0 /\ ~r.allowOriginal THEN r.LEVELS - 1 ELSE found
        ret == IF found < 0 /\ r.allowOriginal
               THEN [req EXCEPT !.resolution = req.endSamples - req.startSamples]
               ELSE snapToLevel(r, req, i)
    IN  [ returned |-> ret, i |-> i,
          outcome |-> IF retAssert(r, ret) THEN "returned" ELSE "assert_failed" ]

\* void requestView(const mipmapReaderView& requested, mipmapReaderView& returned),
\* for a request that passes the two entry assertions and has resolution > 0
requestView(r, req) ==
    LET reqViewSpan == req.endSamples - req.startSamples
        found == findLevel(r, r.LEVELS - 1, reqViewSpan, req.resolution)
        i == IF found < 0 /\ ~r.allowOriginal THEN 0 ELSE found
        ret == IF found < 0 /\ r.allowOriginal
               THEN [req EXCEPT !.resolution = req.endSamples - req.startSamples]
               ELSE snapToLevel(r, req, i)
    IN  [ returned |-> ret, i |-> i,
          outcome |-> IF retAssert(r, ret) THEN "returned" ELSE "assert_failed" ]

RECURSIVE matchLevel(_, _, _)
\* for(; i < LEVELS; i++) if(levelCompression[i] == compression) break;  -> i
matchLevel(r, i, c) ==
    IF i >= r.LEVELS THEN r.LEVELS
    ELSE IF r.levelCompression[i] = c THEN i
    ELSE matchLevel(r, i + 1, c)

RECURSIVE copyLoop(_, _, _, _)
\* the while(true) loop of read / readSpectrum from an iteration with offset dstOffs:
\* the chunk at currIndex is copied, then the loop ends or the finder advances
copyLoop(f, dstOffs, chunkElements, dstElements) ==
    IF dstOffs + chunkElements >= dstElements
    THEN [slots |-> <<f.currIndex>>, finder |-> f]
    ELSE LET rest == copyLoop(advanceChunk(f), dstOffs + chunkElements,
                              chunkElements, dstElements)
         IN  [slots |-> <<f.currIndex>> \o rest.slots, finder |-> rest.finder]

\* void read(view, dst, yLower, yUpper): the chunks it copies, in order
read(r, f, view) ==
    LET c == compression(view)
        i == matchLevel(r, 0, c)
        mipmapStart == view.startSamples \div c
        run == copyLoop(goToChunk(f, i, mipmapStart \div r.chunkSize), 0,
                        r.chunkSize * CHANNELS, view.resolution * CHANNELS)
    IN  IF i = r.LEVELS
        THEN [result |-> "logic_error", slots |-> << >>, finder |-> f]
        ELSE [result |-> "ok", slots |-> run.slots, finder |-> run.finder]

\* int totalChunks = length / levelCompression[i] / chunkSize;
totalChunksAt(r, i) == (r.length \div r.levelCompression[i]) \div r.chunkSize

\* chunkIndex += totalChunks/2; if(chunkIndex >= totalChunks) chunkIndex -= totalChunks;
shiftChunk(chunkIndex, totalChunks) ==
    LET shifted == chunkIndex + totalChunks \div 2
    IN  IF shifted >= totalChunks THEN shifted - totalChunks ELSE shifted

\* void readSpectrum(view, dst, yLower, yUpper): the chunks it copies, in order
readSpectrum(r, f, view) ==
    LET c == compression(view)
        i == matchLevel(r, 0, c)
        mipmapStart == view.startSamples \div c
        chunkIndex == shiftChunk(mipmapStart \div r.chunkSize, totalChunksAt(r, i))
        run == copyLoop(goToChunk(f, i, chunkIndex), 0, r.chunkSize, view.resolution)
    IN  IF i = r.LEVELS
        THEN [result |-> "logic_error", slots |-> << >>, finder |-> f]
        ELSE [result |-> "ok", slots |-> run.slots, finder |-> run.finder]

\* ------------------------------------------------------------------ finder state machine
\* The level configurations the finder is built with: every one within the bounds,
\* the scenario levelSteps = [4, 4], and a mixed-radix one, [3, 2, 3].
LevelConfigs ==
    UNION { [0 .. n - 1 -> 1 .. MaxStep] : n \in 1 .. MaxLevels }
        \cup { [i \in 0 .. 1 |-> 4], (0 :> 3 @@ 1 :> 2 @@ 2 :> 3) }

FinderOf(steps) ==
    LET n == Cardinality(DOMAIN steps)
    IN  init([NewFinder(n) EXCEPT !.levelSteps = steps])

\* The reader takes no part in the finder's state machine.
NoReader == readerInit([i \in 0 .. 0 |-> 1], 0, DefaultChunkSize, DefaultBaseStep, TRUE)

ReaderIdle ==
    /\ requested = NoView
    /\ returned = NoView
    /\ chosen = -1
    /\ outcome = "none"
    /\ readResult = "none"
    /\ slots = << >>

Init ==
    /\ \E steps \in LevelConfigs : finder = FinderOf(steps)
    /\ logical = 0
    /\ valid = TRUE
    /\ lastOp = "init"
    /\ reader = NoReader
    /\ ReaderIdle

GoToChunk ==
    \E level \in 0 .. finder.LEVELS - 1 :
        \E index \in 0 .. NodeCount(finder, level) - 1 :
            /\ finder' = goToChunk(finder, level, index)
            /\ logical' = index
            /\ valid' = TRUE
            /\ lastOp' = "goToChunk"
            /\ UNCHANGED readerVars

GoToChunkBeyond ==
    \E level \in 0 .. finder.LEVELS - 1 :
        \E index \in NodeCount(finder, level) .. NodeCount(finder, level) + MaxExcess - 1 :
            /\ finder' = goToChunk(finder, level, index)
            /\ logical' = index
            /\ valid' = FALSE
            /\ lastOp' = "goToChunk"
            /\ UNCHANGED readerVars

AdvanceChunk ==
    /\ finder' = advanceChunk(finder)
    /\ logical' = (logical + 1) % NodeCount(finder, finder.currLevel)
    /\ lastOp' = "advanceChunk"
    /\ UNCHANGED <<valid, readerVars>>

Next == GoToChunk \/ GoToChunkBeyond \/ AdvanceChunk

Spec == Init /\ [][Next]_vars

\* ------------------------------------------------------------------ reader state machine
\* A reader is built (init) with any configuration within the bounds, or with the
\* default chunkSize 16 and baseLevelStep 4 and levelSteps [4, 2], which gives
\* levelCompression [4, 16].
ReaderLevelConfigs ==
    UNION { [0 .. n - 1 -> 1 .. MaxStep] : n \in 1 .. MaxReaderLevels }

DefaultSteps == (0 :> 4 @@ 1 :> 2)
DefaultLengths == {200, 256, 512}

ReaderInit ==
    /\ \/ \E steps \in ReaderLevelConfigs, length \in 1 .. MaxLength,
             chunkSize \in 1 .. MaxChunkSize, baseLevelStep \in 1 .. MaxBaseStep,
             allowOriginal \in BOOLEAN :
              /\ reader = readerInit(steps, length, chunkSize, baseLevelStep, allowOriginal)
              /\ finder = FinderOf(steps)
       \/ \E length \in DefaultLengths, allowOriginal \in BOOLEAN :
              /\ reader = readerInit(DefaultSteps, length, DefaultChunkSize,
                                     DefaultBaseStep, allowOriginal)
              /\ finder = FinderOf(DefaultSteps)
    /\ logical = 0
    /\ valid = TRUE
    /\ lastOp = "init"
    /\ ReaderIdle

\* The requests a caller makes: every pre-validated one (0 <= startSamples <
\* endSamples <= length, resolution >= 1) of a small reader, and for the default
\* reader spans of 200 samples at resolutions around the level boundaries.
Resolutions(r) ==
    IF r.chunkSize # DefaultChunkSize
    THEN 1 .. r.length + 1
    ELSE {10, 12, 13, 16, 50, 51, 64, 200, 201}

Requests(r) ==
    IF r.chunkSize # DefaultChunkSize
    THEN { [startSamples |-> s, endSamples |-> e, resolution |-> n] :
               s \in 0 .. r.length - 1, e \in 1 .. r.length, n \in Resolutions(r) }
    ELSE { [startSamples |-> s, endSamples |-> s + span, resolution |-> n] :
               s \in {0, 56, 64, 256, 300}, span \in {200, 256}, n \in Resolutions(r) }

\* requestView is a function of the reader's configuration and the request and
\* changes no field of the reader; one call per behaviour shows every result.
RequestView ==
    /\ outcome = "none"
    /\ \E req \in Requests(reader) :
        /\ req.startSamples >= 0 /\ req.startSamples < reader.length
        /\ req.endSamples > req.startSamples /\ req.endSamples <= reader.length
        /\ LET res == requestView(reader, req)
           IN  /\ requested' = req
               /\ returned' = res.returned
               /\ chosen' = res.i
               /\ outcome' = res.outcome
    /\ lastOp' = "requestView"
    /\ UNCHANGED <<finderVars, reader, readResult, slots>>

\* The caller passes the view requestView returned to read.
Read ==
    /\ outcome = "returned" /\ readResult = "none"
    /\ LET res == read(reader, finder, returned)
       IN  /\ finder' = res.finder
           /\ readResult' = res.result
           /\ slots' = res.slots
    /\ lastOp' = "read"
    /\ UNCHANGED <<logical, valid, reader, requested, returned, chosen, outcome>>

\* The caller passes the view requestView returned to readSpectrum.
ReadSpectrum ==
    /\ outcome = "returned" /\ readResult = "none"
    /\ LET res == readSpectrum(reader, finder, returned)
       IN  /\ finder' = res.finder
           /\ readResult' = res.result
           /\ slots' = res.slots
    /\ lastOp' = "readSpectrum"
    /\ UNCHANGED <<logical, valid, reader, requested, returned, chosen, outcome>>

ReaderNext == RequestView \/ Read \/ ReadSpectrum

ReaderSpec == ReaderInit /\ [][ReaderNext]_vars

\* ------------------------------------------------------------------ finder properties
\* The cursor fields a jump or an advance defines: currLevel, currIndex and
\* levelIndex[currLevel .. LEVELS-1].
SameCursor(f, g) ==
    /\ f.currLevel = g.currLevel
    /\ f.currIndex = g.currIndex
    /\ \A i \in f.currLevel .. f.LEVELS - 1 : f.levelIndex[i] = g.levelIndex[i]

\* C1: after goToChunk(L, n) with n in [0, N_L) and k advanceChunk() calls, currIndex
\* and levelIndex[L ..] are what a fresh goToChunk(L, (n + k) mod N_L) produces
\* (logical holds (n + k) mod N_L).
C1_CursorConsistency ==
    valid => SameCursor(finder, goToChunk(finder, finder.currLevel, logical))

\* C1 witness: at three levels an advance at leaf level has carried through every
\* digit and wrapped around the ring back to logical chunk 0.
C1_Witness ==
    /\ valid /\ lastOp = "advanceChunk"
    /\ finder.LEVELS = 3 /\ finder.currLevel = 0
    /\ \A i \in 0 .. 2 : finder.levelSteps[i] >= 2
    /\ logical = 0 /\ finder.currIndex = 0

\* C2: in every reachable state 0 <= currIndex < totalChunkCount and every
\* levelIndex[i], i >= currLevel, lies in [0, levelSteps[i]).
C2_RangeInvariant ==
    /\ 0 <= finder.currIndex /\ finder.currIndex < finder.totalChunkCount
    /\ \A i \in finder.currLevel .. finder.LEVELS - 1 :
           0 <= finder.levelIndex[i] /\ finder.levelIndex[i] < finder.levelSteps[i]

\* C2 witness: a jump with an index beyond the level's node count, then an advance
\* that wrapped the ring.
C2_Witness ==
    /\ ~valid /\ lastOp = "advanceChunk"
    /\ finder.LEVELS >= 2 /\ finder.currLevel = 0
    /\ finder.currIndex = 0

RECURSIVE Walk(_, _)
\* n advanceChunk() calls from f: the currIndex values before each call (slots) and
\* the finder after the last one (end); the walk is split in halves to keep the
\* evaluation shallow
Walk(f, n) ==
    IF n = 0 THEN [slots |-> << >>, end |-> f]
    ELSE IF n = 1 THEN [slots |-> <<f.currIndex>>, end |-> advanceChunk(f)]
    ELSE LET a == Walk(f, n \div 2)
             b == Walk(a.end, n - n \div 2)
         IN  [slots |-> a.slots \o b.slots, end |-> b.end]

\* The slots visited from f are pairwise distinct for exactly p steps and step p
\* is back on the starting slot.
PeriodIs(f, p) ==
    LET w == Walk(f, p)
    IN  /\ p >= 1
        /\ Cardinality({ w.slots[j] : j \in 1 .. p }) = p
        /\ w.end.currIndex = f.currIndex

\* C3 as stated: from goToChunk(L, logicalIndex) the visited slots are pairwise
\* distinct for exactly totalChunkCount / levelSizes[L] steps and then repeat.
C3_PeriodBySubtreeSize ==
    (valid /\ lastOp = "goToChunk") =>
        PeriodIs(finder, finder.totalChunkCount \div finder.levelSizes[finder.currLevel])

\* C3 amended: the period is the node count of the level, the product of
\* levelSteps[L .. LEVELS-1].
C3_PeriodByNodeCount ==
    (valid /\ lastOp = "goToChunk") =>
        /\ PeriodIs(finder, NodeCount(finder, finder.currLevel))
        /\ SameCursor(Walk(finder, NodeCount(finder, finder.currLevel)).end, finder)

\* C3 witness: a leaf-level jump where the two periods differ (levelSteps [4,4]:
\* 16 leaf nodes, totalChunkCount / levelSizes[0] = 20).
C3_Witness ==
    /\ valid /\ lastOp = "goToChunk"
    /\ finder.LEVELS = 2 /\ finder.currLevel = 0
    /\ finder.levelSteps[0] = 4 /\ finder.levelSteps[1] = 4
    /\ logical = 7
    /\ NodeCount(finder, 0) = 16
    /\ finder.totalChunkCount \div finder.levelSizes[0] = 20

\* The nodes of the chunk tree: (level, n) with n below the level's node count.
Nodes(f) ==
    { nd \in (0 .. f.LEVELS - 1) \X (0 .. NodeCount(f, 0) - 1) :
          nd[2] < NodeCount(f, nd[1]) }

\* (Ld, nd) lies in the subtree below (L, n): dividing nd by the branching
\* factors between the two levels gives n.
IsDescendant(f, Ld, nd, L, n) ==
    Ld < L /\ nd \div ProdOver(f.levelSteps, Ld, L - 1) = n

\* goToChunk maps the nodes one-to-one onto [0, totalChunkCount), and the
\* descendants of a node at slot s fill the levelSteps[L-1] * levelSizes[L-1] slots
\* right before s.
DepthFirstLayout(f) ==
    LET slot == [nd \in Nodes(f) |-> goToChunk(f, nd[1], nd[2]).currIndex]
    IN  /\ { slot[nd] : nd \in Nodes(f) } = 0 .. f.totalChunkCount - 1
        /\ Cardinality(Nodes(f)) = f.totalChunkCount
        /\ f.totalChunkCount =
               SumOver([L \in 0 .. f.LEVELS - 1 |-> NodeCount(f, L)], 0, f.LEVELS - 1)
        /\ \A nd \in Nodes(f) :
               nd[1] >= 1 =>
                   { slot[d] : d \in { e \in Nodes(f) :
                                          IsDescendant(f, e[1], e[2], nd[1], nd[2]) } }
                   = (slot[nd] - f.levelSteps[nd[1] - 1] * f.levelSizes[nd[1] - 1])
                         .. (slot[nd] - 1)

\* The state goToChunk(0, 0) leaves a finder in with no other history in levelIndex.
AtOrigin ==
    /\ valid /\ lastOp = "goToChunk" /\ logical = 0 /\ finder.currLevel = 0
    /\ \A i \in 0 .. finder.LEVELS - 1 : finder.levelIndex[i] = 0

\* C10: goToChunk lays the tree out depth-first, children before their parent:
\* a bijection of the nodes onto [0, totalChunkCount) with every node's descendants
\* in the slots right before it; levelSteps [4,4] gives levelSizes [1,5],
\* totalChunkCount 20 and goToChunk(0,7) gives levelIndex [3,1], currIndex 8.
C10_DepthFirstLayout ==
    /\ AtOrigin => DepthFirstLayout(finder)
    /\ ( /\ finder.levelSteps = [i \in 0 .. 1 |-> 4]
         /\ valid /\ lastOp = "goToChunk" /\ finder.currLevel = 0 /\ logical = 7 )
       => ( /\ finder.levelSizes = (0 :> 1 @@ 1 :> 5)
            /\ finder.totalChunkCount = 20
            /\ finder.levelIndex = (0 :> 3 @@ 1 :> 1)
            /\ finder.currIndex = 8 )

\* C10 witness: a three-level tree after goToChunk(0, 0), where the layout of the
\* whole tree is examined.
C10_Witness ==
    /\ AtOrigin
    /\ finder.LEVELS = 3
    /\ \A i \in 0 .. 2 : finder.levelSteps[i] >= 2
    /\ finder.currIndex = 0

\* ------------------------------------------------------------------ reader properties
\* requestView has been called (its results stay in place while the view is read).
Resolved == outcome # "none"

ReqSpan == requested.endSamples - requested.startSamples

\* levelCompression[i] <= span / resolution as an exact ratio
Qualifies(i) == reader.levelCompression[i] * requested.resolution <= ReqSpan

Levels == 0 .. reader.LEVELS - 1

\* v is the smallest range of whole level-i chunks around the request, at level i's
\* resolution.
SnappedTo(v, i) ==
    LET c == reader.levelCompression[i]
        roundTo == c * reader.chunkSize
    IN  /\ v.startSamples % roundTo = 0 /\ v.endSamples % roundTo = 0
        /\ v.startSamples <= requested.startSamples
        /\ requested.startSamples < v.startSamples + roundTo
        /\ requested.endSamples <= v.endSamples
        /\ v.endSamples - roundTo < requested.endSamples
        /\ v.resolution * c = v.endSamples - v.startSamples

\* C4 as stated: requestView never fails a pre-validated request; with no qualifying
\* level it returns the request with resolution = span if allowOriginal, and the
\* view snapped to level 0 otherwise.
C4_NeverFails ==
    Resolved =>
        /\ outcome = "returned"
        /\ (\A i \in Levels : ~Qualifies(i)) =>
               IF reader.allowOriginal
               THEN returned = [requested EXCEPT !.resolution = ReqSpan]
               ELSE SnappedTo(returned, 0)

\* C5 as stated: every view requestView returns, the original-data one included,
\* has the compression of some level and a resolution of whole chunks, and read /
\* readSpectrum on it never end in the logic error.
C5_AlwaysReadable ==
    outcome = "returned" =>
        /\ \E i \in Levels : compression(returned) = reader.levelCompression[i]
        /\ returned.resolution % reader.chunkSize = 0
        /\ readResult # "logic_error"

\* C5 amended: every view requestView returns for a level (i >= 0 at ret, i.e. not
\* the original-data view) has that level's compression and a resolution of whole
\* chunks, and read / readSpectrum on it never end in the logic error.
C5_LevelViewReadable ==
    (outcome = "returned" /\ chosen >= 0) =>
        /\ compression(returned) = reader.levelCompression[chosen]
        /\ returned.resolution % reader.chunkSize = 0
        /\ returned.resolution >= reader.chunkSize
        /\ readResult # "logic_error"

\* C5 witness: read has copied several chunks of a view resolved at level 1 with
\* chunks of two samples.
C5_Witness ==
    /\ lastOp = "read" /\ readResult = "ok"
    /\ chosen = 1 /\ reader.chunkSize = 2
    /\ Len(slots) >= 2

\* C6: when some level qualifies, requestView chooses the largest i with
\* levelCompression[i] <= span / resolution and returns the smallest range of whole
\* level-i chunks containing the request with resolution' = (e' - s') / c, so the
\* range covers the request and resolution' >= resolution; chunkSize 16,
\* levelCompression [4,16], span 200, resolution 10 gives level 1 and 256-sample
\* boundaries.
C6_ResolverPostcondition ==
    /\ (Resolved /\ \E i \in Levels : Qualifies(i)) =>
           /\ chosen \in Levels /\ Qualifies(chosen)
           /\ \A j \in Levels : j > chosen => ~Qualifies(j)
           /\ SnappedTo(returned, chosen)
           /\ returned.resolution >= requested.resolution
    /\ ( /\ Resolved
         /\ reader.chunkSize = 16 /\ reader.levelCompression = (0 :> 4 @@ 1 :> 16)
         /\ ReqSpan = 200 /\ requested.resolution = 10 )
       => ( /\ chosen = 1
            /\ returned.startSamples % 256 = 0 /\ returned.endSamples % 256 = 0 )

\* C6 witness: the scenario itself, samples 56 .. 256 at 10 points of a stream of
\* 512, returned as 0 .. 256 at level 1.
C6_Witness ==
    /\ lastOp = "requestView" /\ outcome = "returned"
    /\ reader.chunkSize = 16 /\ reader.levelCompression = (0 :> 4 @@ 1 :> 16)
    /\ reader.length = 512
    /\ requested = [startSamples |-> 56, endSamples |-> 256, resolution |-> 10]
    /\ chosen = 1
    /\ returned = [startSamples |-> 0, endSamples |-> 256, resolution |-> 16]

\* C7 as stated: readSpectrum copies its k-th chunk, k = 0 .. resolution/chunkSize - 1,
\* from the slot of logical chunk (startChunk + totalChunks/2 + k) mod totalChunks
\* of the view's level, totalChunks = length / levelCompression[i] / chunkSize.
C7_SpectrumCentering ==
    (lastOp = "readSpectrum" /\ readResult = "ok") =>
        LET c == compression(returned)
            i == CHOOSE l \in Levels :
                     /\ reader.levelCompression[l] = c
                     /\ \A m \in 0 .. l - 1 : reader.levelCompression[m] # c
            totalChunks == (reader.length \div reader.levelCompression[i])
                               \div reader.chunkSize
            startChunk == (returned.startSamples \div c) \div reader.chunkSize
        IN  \A k \in 0 .. returned.resolution \div reader.chunkSize - 1 :
                /\ k + 1 <= Len(slots)
                /\ slots[k + 1] =
                       goToChunk(finder, i,
                                 (startChunk + totalChunks \div 2 + k) % totalChunks).currIndex

\* The view is already a whole number of chunks of some level at that level's
\* resolution.
AlignedView(v) ==
    \E i \in Levels :
        LET roundTo == reader.levelCompression[i] * reader.chunkSize
        IN  /\ v.startSamples % roundTo = 0 /\ v.endSamples % roundTo = 0
            /\ v.resolution * reader.levelCompression[i] = v.endSamples - v.startSamples

\* C8: requestView returns an already resolved view (ends on chunk boundaries of a
\* level, that level's resolution, endSamples <= length) unchanged; so resolving a
\* level-resolved result again returns it again.
C8_ResolverIdempotence ==
    /\ (Resolved /\ AlignedView(requested)) =>
           (outcome = "returned" /\ returned = requested)
    /\ (outcome = "returned" /\ chosen >= 0) =>
           LET again == requestView(reader, returned)
           IN  again.outcome = "returned" /\ again.returned = returned

\* C8 witness: an aligned level-1 view that does not start at sample 0 came back
\* unchanged.
C8_Witness ==
    /\ lastOp = "requestView" /\ outcome = "returned"
    /\ AlignedView(requested) /\ chosen = 1
    /\ reader.levelCompression[1] > reader.levelCompression[0]
    /\ requested.startSamples > 0
    /\ returned = requested

\* C9: for fixed startSamples / endSamples and resolutions r1 < r2, the level chosen
\* for r2 is never a larger index than the one chosen for r1 (-1, the original
\* data, counting as finer than level 0).
C9_ResolverMonotonicity ==
    Resolved =>
        \A r2 \in Resolutions(reader) :
            r2 > requested.resolution =>
                requestView(reader, [requested EXCEPT !.resolution = r2]).i <= chosen

\* C9 witness: a request resolved at level 1 for which larger resolutions choose
\* level 0 and the original data.
C9_Witness ==
    /\ lastOp = "requestView" /\ chosen = 1
    /\ reader.levelCompression[1] > reader.levelCompression[0]
    /\ \E r2, r3 \in Resolutions(reader) :
           /\ requested.resolution < r2 /\ r2 < r3
           /\ requestView(reader, [requested EXCEPT !.resolution = r2]).i = 0
           /\ requestView(reader, [requested EXCEPT !.resolution = r3]).i = -1

====
